---- MODULE Spec2Model ----
(***************************************************************************)
(* Model of the parallel breadth-first solver of src/src/main.rs ("Cammy   *)
(* the Camel"): the state transition model (moves, pickup, successors),    *)
(* the per-worker visited table (States::insert), the round barrier and    *)
(* stop vote (WorkerShared::synchronize), the worker loop (Worker::run)    *)
(* and the aggregation of the workers' records (solve, StateSet::new,      *)
(* StateSet::get, the count main prints); and of the asciicast encoder of  *)
(* src/src/asciicast.rs (push_frame, write_escaped,                        *)
(* encode_to_asciicast_v2).                                                *)
(*                                                                         *)
(* D and C are the const generics of solve::<D, C>, bananas its argument,  *)
(* num_workers the value build_workers reads from num_cpus.  Workers are   *)
(* numbered 0 .. num_workers-1 as in the source.  All quantities stay far  *)
(* below 2^16, so the u16 fields are modelled by naturals.                 *)
(***************************************************************************)
EXTENDS Naturals, Integers, Sequences, FiniteSets, TLC

\* Bounds of the model: distance, capacity, bananas, worker threads.
MaxD == 2
MaxC == 3
MaxB == 3
MaxWorkers == 3

\* Bounds of the records fed to StateSet::new on its own: the largest
\* bananas_sold and the longest list of solutions of a record.
AggMaxSold == 1
AggMaxSols == 1

\* Bounds of the animations fed to the asciicast encoder: columns, rows and
\* frames pushed.
MaxCols == 2
MaxRows == 2
MaxFrames == 2

VARIABLES
    D,            \* const generic D: number of positions / length of piles
    C,            \* const generic C: carrying capacity
    bananas,      \* argument of solve
    num_workers,  \* WorkerShared.num_workers
    progress,     \* WorkerShared.progress (guarded by the mutex)
    mutex,        \* holder of the progress mutex, or NoWorker
    stop_votes,   \* WorkerShared.stop_votes
    cleanup,      \* WorkerShared.cleanup
    pc,           \* position of each worker thread in Worker::run
    round,        \* local `round` of each worker
    next,         \* local `next` (frontier) of each worker
    states,       \* local `states: States<D>` of each worker
    successors,   \* local `successors` (one batch per shard), being sent
    sent,         \* index i of the send loop (batches already sent)
    nrecv,        \* iterations done of the receive loop
    votes_seen,   \* value the last arriver loaded from stop_votes
    chan,         \* chan[w]: queue of the mpsc channel whose receiver w owns
    answers,      \* queue of the answer channel
    set,          \* the StateSet under construction in StateSet::new
    printed,      \* rounds printed by "finished after {} rounds"
    panicked,     \* the panics so far: the worker and the cause (the assert!
                  \* of States::insert, or a send on a closed channel)
    hist,         \* hist[w][r+1]: was w's frontier empty at the top of round r
    received,     \* (sender, round) of the batches w drained in its latest
                  \* receive phase (history; cleared when w expands)
    anim,         \* the Animation of src/src/asciicast.rs
    output        \* what encode_to_asciicast_v2 wrote (empty: not yet called)

vars == <<D, C, bananas, num_workers, progress, mutex, stop_votes, cleanup,
          pc, round, next, states, successors, sent, nrecv, votes_seen, chan,
          answers, set, printed, panicked, hist, received, anim, output>>

NoWorker == 0 - 1
None == [none |-> TRUE]

Workers == 0 .. (num_workers - 1)

-----------------------------------------------------------------------------
(* Sequence helpers *)

\* Concatenation of the sequences ss[lo], ..., ss[hi] (by halves, to keep the
\* evaluation shallow).
RECURSIVE ConcatFrom(_, _, _)
ConcatFrom(ss, lo, hi) ==
    IF lo > hi THEN <<>>
    ELSE IF lo = hi THEN ss[lo]
    ELSE LET mid == (lo + hi) \div 2
         IN  ConcatFrom(ss, lo, mid) \o ConcatFrom(ss, mid + 1, hi)

Concat(ss) == ConcatFrom(ss, 1, Len(ss))

Range(s) == {s[i] : i \in DOMAIN s}

Zeros(n) == [i \in 1 .. n |-> 0]

Min(a, b) == IF a < b THEN a ELSE b

SetMax(S) == IF S = {} THEN 0 ELSE CHOOSE m \in S : \A n \in S : n <= m

-----------------------------------------------------------------------------
(* State transition model: State::moves, State::pickup, State::successors *)

KeyOf(state) == [x |-> state.x, piles |-> state.piles]

\* moves without the early return on held == 0: the camel steps with nothing
\* in hand and `held - 1` goes below zero.
movesNoGuard(state) ==
    (IF state.x + 1 < Len(state.piles)
       THEN <<[state EXCEPT !.x = state.x + 1, !.held = state.held - 1]>>
       ELSE <<>>)
 \o (IF state.x > 0
       THEN <<[state EXCEPT !.x = state.x - 1, !.held = state.held - 1]>>
       ELSE <<>>)

\* moves: nothing when held = 0; otherwise forward (if x + 1 < D) then
\* backward (if x > 0), each with held - 1.
moves(state) ==
    IF state.held = 0 THEN <<>>
    ELSE (IF state.x + 1 < Len(state.piles)
            THEN <<[state EXCEPT !.x = state.x + 1, !.held = state.held - 1]>>
            ELSE <<>>)
      \o (IF state.x > 0
            THEN <<[state EXCEPT !.x = state.x - 1, !.held = state.held - 1]>>
            ELSE <<>>)

\* pickup that leaves the pile as it was: what is taken in hand is not
\* taken from the ground.
pickupKeepPile(cap, state) ==
    LET pile == state.x + 1
        amt  == Min(cap - state.held, state.piles[pile])
    IN  [state EXCEPT !.held = state.held + amt]

\* pickup::<C>: take min(C - held, piles[x]) from the pile under the camel.
pickup(cap, state) ==
    LET pile == state.x + 1
        amt  == Min(cap - state.held, state.piles[pile])
    IN  [state EXCEPT !.held = state.held + amt,
                      !.piles[pile] = state.piles[pile] - amt]

\* The drop loop without `state.held -= amount`: what is dropped stays in hand.
dropsKeepHeld(state) ==
    [k \in 1 .. (state.held + 1) |->
        [state EXCEPT !.piles[state.x + 1] = state.piles[state.x + 1] + (k - 1)]]

\* The inner loop of successors: drop amount = 0 ..= held at the position.
drops(state) ==
    [k \in 1 .. (state.held + 1) |->
        [state EXCEPT !.held = state.held - (k - 1),
                      !.piles[state.x + 1] = state.piles[state.x + 1] + (k - 1)]]

\* successors::<C>: for each move, pickup, then every drop amount, in order.
Successors(cap, state) ==
    LET ms == moves(state)
    IN  Concat([i \in 1 .. Len(ms) |-> drops(pickup(cap, ms[i]))])

-----------------------------------------------------------------------------
(* The sharding hash: FnvBuildHasher::hash_one, 64-bit FNV-1a over the     *)
(* bytes that #[derive(Hash)] feeds it.  The 64-bit value is kept as eight *)
(* little-endian bytes so that no intermediate exceeds 32 bits.            *)

RECURSIVE Xor8(_, _)
Xor8(a, b) ==
    IF a = 0 THEN b
    ELSE IF b = 0 THEN a
    ELSE (((a % 2) + (b % 2)) % 2) + 2 * Xor8(a \div 2, b \div 2)

\* FNV offset basis 0xcbf29ce484222325, least significant byte first.
FnvOffsetBasis == <<37, 35, 34, 132, 228, 156, 242, 203>>

\* h * prime mod 2^64, limb by limb with carry.  The FNV prime is
\* 0x100000001b3 = 2^40 + 435: 435 times the limb plus the limb five below.
RECURSIVE FnvMulFrom(_, _, _)
FnvMulFrom(h, i, carry) ==
    IF i > 8 THEN <<>>
    ELSE LET t == h[i] * 435 + (IF i > 5 THEN h[i - 5] ELSE 0) + carry
         IN  <<t % 256>> \o FnvMulFrom(h, i + 1, t \div 256)

\* FnvHasher::write for one byte: xor into the low byte, multiply by the prime.
FnvByte(h, byte) == FnvMulFrom([h EXCEPT ![1] = Xor8(h[1], byte)], 1, 0)

\* FnvHasher::write: the loop over the bytes; hasher is the running hash
\* together with the number of bytes consumed.
RECURSIVE FnvWrite(_, _)
FnvWrite(hasher, bytes) ==
    IF hasher.n = Len(bytes) THEN hasher.hash
    ELSE FnvWrite([hash |-> FnvByte(hasher.hash, bytes[hasher.n + 1]),
                   n    |-> hasher.n + 1], bytes)

\* Native-endian (little-endian) bytes of a u16 and of a 64-bit usize.
BytesU16(n) == <<n % 256, (n \div 256) % 256>>
BytesUsize(n) == <<n % 256, (n \div 256) % 256, 0, 0, 0, 0, 0, 0>>

\* derive(Hash) on StateKey: x, then the array as a slice (length prefix,
\* then the elements).
KeyBytes(key) ==
    BytesU16(key.x) \o BytesUsize(Len(key.piles))
      \o Concat([i \in 1 .. Len(key.piles) |-> BytesU16(key.piles[i])])

\* derive(Hash) on State: inner, then held.
StateBytes(state) == KeyBytes(KeyOf(state)) \o BytesU16(state.held)

\* hash % n for the 64-bit hash h.
RECURSIVE ModFrom(_, _, _, _)
ModFrom(h, i, n, acc) ==
    IF i = 0 THEN acc ELSE ModFrom(h, i - 1, n, (acc * 256 + h[i]) % n)

HashMod(bytes, n) ==
    ModFrom(FnvWrite([hash |-> FnvOffsetBasis, n |-> 0], bytes), 8, n, 0)

\* Worker::run: shard = hash_one(&successor) % num_workers.
ShardOf(state, n) == HashMod(StateBytes(state), n)

-----------------------------------------------------------------------------
(* Partitioned visited table: States::default and States::insert *)

DefaultStates == [inner |-> <<>>, bananas_sold |-> 0, solutions |-> <<>>]

\* insert with the final-position test off by one (x == D instead of D - 1).
insertOffByOne(st, prev, state) ==
    LET key      == KeyOf(state)
        occupied == key \in DOMAIN st.inner
        final    == state.x = Len(state.piles)
    IN  [states   |-> [inner |-> IF occupied THEN st.inner
                                 ELSE st.inner @@ (key :> [prev |-> prev,
                                                           held |-> state.held]),
                       bananas_sold |-> IF final /\ state.held > st.bananas_sold
                                          THEN state.held ELSE st.bananas_sold,
                       solutions |-> IF final /\ state.held >= st.bananas_sold
                                       THEN Append(st.solutions, key)
                                       ELSE st.solutions],
         inserted |-> ~occupied,
         ok       |-> occupied => st.inner[key].held >= state.held]

\* States::insert(prev, state).  Returns the table, the `inserted` flag and
\* whether the assert! of the occupied branch passed.  The update of
\* bananas_sold / solutions is outside the match: it runs for every call.
insert(st, prev, state) ==
    LET key      == KeyOf(state)
        occupied == key \in DOMAIN st.inner
        ok       == occupied => st.inner[key].held >= state.held
        inner1   == IF occupied THEN st.inner
                    ELSE st.inner @@ (key :> [prev |-> prev, held |-> state.held])
        final    == state.x = Len(state.piles) - 1
        sold1    == IF final /\ state.held > st.bananas_sold
                      THEN state.held ELSE st.bananas_sold
        sols1    == IF final /\ state.held > st.bananas_sold THEN <<key>>
                    ELSE IF final /\ state.held = st.bananas_sold
                      THEN Append(st.solutions, key)
                    ELSE st.solutions
    IN  [states   |-> [inner |-> inner1, bananas_sold |-> sold1,
                       solutions |-> sols1],
         inserted |-> ~occupied,
         ok       |-> ok]

\* One iteration of `for (prev, state) in succ`: insert, and push the state
\* on `next` when it was inserted.  A failed assert! unwinds: nothing after
\* it is processed.
InsertPair(acc, pair) ==
    IF ~acc.ok THEN acc
    ELSE LET r == insert(acc.states, pair.prev, pair.state)
         IN  IF ~r.ok THEN [acc EXCEPT !.ok = FALSE]
             ELSE [states |-> r.states,
                   next   |-> IF r.inserted THEN Append(acc.next, pair.state)
                              ELSE acc.next,
                   ok     |-> TRUE]

\* The pairs lo .. hi of a batch, inserted in order (split in halves to keep
\* the evaluation shallow; the order of insertion is lo, lo+1, ..., hi).
RECURSIVE InsertRange(_, _, _, _)
InsertRange(acc, pairs, lo, hi) ==
    IF lo > hi THEN acc
    ELSE IF lo = hi THEN InsertPair(acc, pairs[lo])
    ELSE LET mid == (lo + hi) \div 2
         IN  InsertRange(InsertRange(acc, pairs, lo, mid), pairs, mid + 1, hi)

\* The body of one iteration of the receive loop of Worker::run.
InsertBatch(st, nxt, pairs) ==
    InsertRange([states |-> st, next |-> nxt, ok |-> TRUE], pairs, 1, Len(pairs))

-----------------------------------------------------------------------------
(* Result aggregation: StateSet::new *)

EmptyStateSet == [states |-> <<>>, bananas_sold |-> 0, solutions |-> <<>>]

\* The loop body without the `else if` branch: ties do not extend the winners.
StateSetStepNoTies(acc, state) ==
    [states       |-> Append(acc.states, state.inner),
     bananas_sold |-> IF state.bananas_sold > acc.bananas_sold
                        THEN state.bananas_sold ELSE acc.bananas_sold,
     solutions    |-> IF state.bananas_sold > acc.bananas_sold
                        THEN state.solutions ELSE acc.solutions]

\* The loop body without the comparison: the record that arrives last wins.
StateSetStepLastWins(acc, state) ==
    [states       |-> Append(acc.states, state.inner),
     bananas_sold |-> state.bananas_sold,
     solutions    |-> state.solutions]

\* One iteration of the for loop of StateSet::new.
StateSetStep(acc, state) ==
    [states       |-> Append(acc.states, state.inner),
     bananas_sold |-> IF state.bananas_sold > acc.bananas_sold
                        THEN state.bananas_sold ELSE acc.bananas_sold,
     solutions    |-> IF state.bananas_sold > acc.bananas_sold
                        THEN state.solutions
                      ELSE IF state.bananas_sold = acc.bananas_sold
                        THEN acc.solutions \o state.solutions
                      ELSE acc.solutions]

\* StateSet::get(key): the shard is the hash of the key alone modulo the
\* number of tables; the tables are in the order StateSet::new pushed them.
get(ss, key) ==
    LET shard == HashMod(KeyBytes(key), Len(ss.states))
    IN  IF key \in DOMAIN ss.states[shard + 1] THEN ss.states[shard + 1][key]
        ELSE None

\* main: the count printed by "visited {} states", solutions.states[0].len().
Visited(ss) == Cardinality(DOMAIN ss.states[1])

-----------------------------------------------------------------------------
(* solve: the initial state and the tables handed to the workers *)

InitialState(d, cap, b) ==
    LET held == Min(b, cap)
    IN  [x |-> 0, piles |-> [Zeros(d) EXCEPT ![1] = b - held], held |-> held]

InitialStates(i, d, cap, b) ==
    IF i = 0 THEN insert(DefaultStates, None, InitialState(d, cap, b)).states
    ELSE DefaultStates

\* Worker::run, before the loop: `next` is the content of the table handed in
\* (at most one state).
FrontierOf(st) ==
    IF DOMAIN st.inner = {} THEN <<>>
    ELSE LET k == CHOOSE k \in DOMAIN st.inner : TRUE
         IN  <<[x |-> k.x, piles |-> k.piles, held |-> st.inner[k].held]>>

\* The solver builds no animation.
NoAnimation == [data |-> <<>>, cols |-> 0, rows |-> 0, frames |-> 0, fps |-> 1]

\* build_workers and solve, up to the spawning of the threads, for the
\* D, C, bananas and num_workers chosen.
SolveStart ==
    /\ progress = 0
    /\ mutex = NoWorker
    /\ stop_votes = 0
    /\ cleanup = 0
    /\ pc = [w \in Workers |-> "top"]
    /\ round = [w \in Workers |-> 0]
    /\ states = [w \in Workers |-> InitialStates(w, D, C, bananas)]
    /\ next = [w \in Workers |-> FrontierOf(states[w])]
    /\ successors = [w \in Workers |-> <<>>]
    /\ sent = [w \in Workers |-> 0]
    /\ nrecv = [w \in Workers |-> 0]
    /\ votes_seen = [w \in Workers |-> 0]
    /\ chan = [w \in Workers |-> <<>>]
    /\ answers = <<>>
    /\ set = EmptyStateSet
    /\ printed = <<>>
    /\ panicked = {}
    /\ hist = [w \in Workers |-> <<>>]
    /\ received = [w \in Workers |-> {}]
    /\ anim = NoAnimation
    /\ output = <<>>

Init ==
    /\ D \in 1 .. MaxD
    /\ C \in 0 .. MaxC
    /\ bananas \in 0 .. MaxB
    /\ num_workers \in 1 .. MaxWorkers
    /\ SolveStart

-----------------------------------------------------------------------------
(* Worker::run and WorkerShared::synchronize, one action per step *)

\* Top of the loop: cast a stop vote if the frontier is empty.
LoopTop(w) ==
    /\ pc[w] = "top"
    /\ stop_votes' = IF next[w] = <<>> THEN stop_votes + 1 ELSE stop_votes
    /\ hist' = [hist EXCEPT ![w] = Append(@, next[w] = <<>>)]
    /\ pc' = [pc EXCEPT ![w] = "sync"]
    /\ UNCHANGED <<anim, output,
                   D, C, bananas, num_workers, progress, mutex, cleanup, round,
                   next, states, successors, sent, nrecv, votes_seen, chan,
                   answers, set, printed, panicked, received>>

\* A target one arrival into the round: the first arriver goes on alone.
TargetEarly(r, n) == r * n + 1

\* A target that every arrival reaches: synchronize never waits.
TargetNoBarrier(r, n) == 0

\* synchronize: the target of the round.
Target(r, n) == (r + 1) * n

\* synchronize: lock, count the arrival, and either wait on the condition
\* variable (which releases the mutex) or go on as the last arriver, holding
\* the mutex.
Arrive(w) ==
    /\ pc[w] = "sync"
    /\ mutex = NoWorker
    /\ progress' = progress + 1
    /\ IF progress' < Target(round[w], num_workers)
         THEN /\ pc' = [pc EXCEPT ![w] = "wait"]
              /\ mutex' = mutex
         ELSE /\ pc' = [pc EXCEPT ![w] = "last_load"]
              /\ mutex' = w
    /\ UNCHANGED <<anim, output,
                   D, C, bananas, num_workers, stop_votes, cleanup, round, next,
                   states, successors, sent, nrecv, votes_seen, chan, answers,
                   set, printed, panicked, hist, received>>

\* The last arriver loads stop_votes ...
LastLoad(w) ==
    /\ pc[w] = "last_load"
    /\ votes_seen' = [votes_seen EXCEPT ![w] = stop_votes]
    /\ pc' = [pc EXCEPT ![w] = "last_store"]
    /\ UNCHANGED <<anim, output,
                   D, C, bananas, num_workers, progress, mutex, stop_votes,
                   cleanup, round, next, states, successors, sent, nrecv, chan,
                   answers, set, printed, panicked, hist, received>>

\* The last arriver leaving the votes of the round in place.
ResetVotesNever(seen, votes, n) == votes

\* The last arriver storing 0 whatever it loaded: a unanimous vote is wiped.
ResetVotesAlways(seen, votes, n) == 0

\* The store of the last arriver: 0 unless it saw all the votes.
ResetVotes(seen, votes, n) == IF seen # n THEN 0 ELSE votes

\* The last arriver returning without notify_all: nobody is woken.
NotifyNone(p) == p

\* cond_var.notify_all(): every thread blocked in wait becomes runnable.
NotifyAll(p) == [v \in DOMAIN p |-> IF p[v] = "wait" THEN "woken" ELSE p[v]]

\* ... stores 0 unless it saw all the votes, notifies every waiter and
\* unlocks on return.
LastStore(w) ==
    /\ pc[w] = "last_store"
    /\ stop_votes' = ResetVotes(votes_seen[w], stop_votes, num_workers)
    /\ pc' = [NotifyAll(pc) EXCEPT ![w] = "check"]
    /\ mutex' = NoWorker
    /\ UNCHANGED <<anim, output,
                   D, C, bananas, num_workers, progress, cleanup, round, next,
                   states, successors, sent, nrecv, votes_seen, chan, answers,
                   set, printed, panicked, hist, received>>

\* Condvar::wait may return without a notification.
SpuriousWake(w) ==
    /\ pc[w] = "wait"
    /\ pc' = [pc EXCEPT ![w] = "woken"]
    /\ UNCHANGED <<anim, output,
                   D, C, bananas, num_workers, progress, mutex, stop_votes,
                   cleanup, round, next, states, successors, sent, nrecv,
                   votes_seen, chan, answers, set, printed, panicked, hist,
                   received>>

\* A waiter that takes any wake-up for the release of the round (`if` in
\* place of `while` around the wait).
RecheckOnce(w) ==
    /\ pc[w] = "woken"
    /\ mutex = NoWorker
    /\ pc' = [pc EXCEPT ![w] = "check"]
    /\ UNCHANGED <<anim, output,
                   D, C, bananas, num_workers, progress, mutex, stop_votes,
                   cleanup, round, next, states, successors, sent, nrecv,
                   votes_seen, chan, answers, set, printed, panicked, hist,
                   received>>

\* A woken waiter reacquires the mutex and tests the loop condition again.
Recheck(w) ==
    /\ pc[w] = "woken"
    /\ mutex = NoWorker
    /\ pc' = [pc EXCEPT ![w] =
                IF progress < Target(round[w], num_workers) THEN "wait"
                ELSE "check"]
    /\ UNCHANGED <<anim, output,
                   D, C, bananas, num_workers, progress, mutex, stop_votes,
                   cleanup, round, next, states, successors, sent, nrecv,
                   votes_seen, chan, answers, set, printed, panicked, hist,
                   received>>

\* After the barrier: all workers done?
CheckStop(w) ==
    /\ pc[w] = "check"
    /\ pc' = [pc EXCEPT ![w] =
                IF stop_votes >= num_workers THEN "answer" ELSE "expand"]
    /\ UNCHANGED <<anim, output,
                   D, C, bananas, num_workers, progress, mutex, stop_votes,
                   cleanup, round, next, states, successors, sent, nrecv,
                   votes_seen, chan, answers, set, printed, panicked, hist,
                   received>>

\* answer_sender.send(states)
SendAnswer(w) ==
    /\ pc[w] = "answer"
    /\ answers' = Append(answers, [from |-> w, states |-> states[w]])
    /\ pc' = [pc EXCEPT ![w] = "cleanup"]
    /\ UNCHANGED <<anim, output,
                   D, C, bananas, num_workers, progress, mutex, stop_votes,
                   cleanup, round, next, states, successors, sent, nrecv,
                   votes_seen, chan, set, printed, panicked, hist, received>>

\* The finalization done by the first worker to increment the counter.
CleanupByFirst(before, n) == before = 0

\* The test on the value fetch_add returned (the counter before the add).
CleanupByLast(before, n) == before + 1 >= n

\* cleanup.fetch_add(1): the worker whose increment reaches num_workers goes
\* on to the println, every other one breaks.
Cleanup(w) ==
    /\ pc[w] = "cleanup"
    /\ cleanup' = cleanup + 1
    /\ pc' = [pc EXCEPT ![w] = IF CleanupByLast(cleanup, num_workers)
                                 THEN "print" ELSE "done"]
    /\ UNCHANGED <<anim, output,
                   D, C, bananas, num_workers, progress, mutex, stop_votes,
                   round, next, states, successors, sent, nrecv, votes_seen,
                   chan, answers, set, printed, panicked, hist, received>>

\* println!("finished after {} rounds", round), a step of its own after the
\* fetch_add (it waits for the lock of stdout); then break.
PrintRounds(w) ==
    /\ pc[w] = "print"
    /\ printed' = Append(printed, [by |-> w, round |-> round[w]])
    /\ pc' = [pc EXCEPT ![w] = "done"]
    /\ UNCHANGED <<anim, output,
                   D, C, bananas, num_workers, progress, mutex, stop_votes,
                   cleanup, round, next, states, successors, sent, nrecv,
                   votes_seen, chan, answers, set, panicked, hist, received>>

\* All (state, successor) pairs of the frontier, in generation order, each
\* with the shard its successor hashes to.
Routed(cap, nxt, n) ==
    Concat([i \in 1 .. Len(nxt) |->
        LET ss == Successors(cap, nxt[i])
        IN  [j \in 1 .. Len(ss) |->
               [prev |-> nxt[i], state |-> ss[j], shard |-> ShardOf(ss[j], n)]]])

Unrouted(p) == [prev |-> p.prev, state |-> p.state]

\* successors[shard]: the pairs pushed for that shard, in order.
Batch(routed, shard) ==
    LET mine == SelectSeq(routed, LAMBDA p : p.shard = shard)
    IN  [k \in 1 .. Len(mine) |-> Unrouted(mine[k])]

\* Compute successors, sharded on hash; `next` is taken (left empty).
Expand(w) ==
    /\ pc[w] = "expand"
    /\ LET routed == Routed(C, next[w], num_workers)
       IN  successors' = [successors EXCEPT ![w] =
                            [i \in 1 .. num_workers |-> Batch(routed, i - 1)]]
    /\ next' = [next EXCEPT ![w] = <<>>]
    /\ received' = [received EXCEPT ![w] = {}]
    /\ sent' = [sent EXCEPT ![w] = 0]
    /\ pc' = [pc EXCEPT ![w] = "send"]
    /\ UNCHANGED <<anim, output,
                   D, C, bananas, num_workers, progress, mutex, stop_votes,
                   cleanup, round, states, nrecv, votes_seen, chan, answers,
                   set, printed, panicked, hist>>

\* senders[i].send(succ) for the next i.  The send fails, and unwrap panics,
\* when the receiving worker has gone (its receiver is dropped).
Send(w) ==
    /\ pc[w] = "send"
    /\ LET i == sent[w]
       IN  IF pc[i] \in {"done", "panicked"}
             THEN /\ pc' = [pc EXCEPT ![w] = "panicked"]
                  /\ panicked' = panicked \cup {[worker |-> w, cause |-> "send"]}
                  /\ UNCHANGED <<chan, sent, nrecv>>
             ELSE /\ chan' = [chan EXCEPT ![i] =
                                Append(@, [from |-> w, round |-> round[w],
                                           pairs |-> successors[w][i + 1]])]
                  /\ sent' = [sent EXCEPT ![w] = i + 1]
                  /\ pc' = [pc EXCEPT ![w] =
                              IF i + 1 = num_workers THEN "recv" ELSE "send"]
                  /\ nrecv' = [nrecv EXCEPT ![w] = 0]
                  /\ UNCHANGED panicked
    /\ UNCHANGED <<anim, output,
                   D, C, bananas, num_workers, progress, mutex, stop_votes,
                   cleanup, round, next, states, successors, votes_seen,
                   answers, set, printed, hist, received>>

\* One iteration of the receive loop: recv() blocks on an empty channel; the
\* batch is inserted pair by pair; after num_workers batches, round += 1.
Recv(w) ==
    /\ pc[w] = "recv"
    /\ chan[w] # <<>>
    /\ LET r == InsertBatch(states[w], next[w], Head(chan[w]).pairs)
       IN  /\ states' = [states EXCEPT ![w] = r.states]
           /\ next' = [next EXCEPT ![w] = r.next]
           /\ IF r.ok
                THEN /\ nrecv' = [nrecv EXCEPT ![w] = @ + 1]
                     /\ IF nrecv[w] + 1 = num_workers
                          THEN /\ round' = [round EXCEPT ![w] = @ + 1]
                               /\ pc' = [pc EXCEPT ![w] = "top"]
                          ELSE UNCHANGED <<round, pc>>
                     /\ UNCHANGED panicked
                ELSE /\ pc' = [pc EXCEPT ![w] = "panicked"]
                     /\ panicked' =
                          panicked \cup {[worker |-> w, cause |-> "assert"]}
                     /\ UNCHANGED <<nrecv, round>>
    /\ chan' = [chan EXCEPT ![w] = Tail(@)]
    /\ received' = [received EXCEPT ![w] =
                      @ \cup {[from  |-> Head(chan[w]).from,
                               round |-> Head(chan[w]).round]}]
    /\ UNCHANGED <<anim, output,
                   D, C, bananas, num_workers, progress, mutex, stop_votes,
                   cleanup, successors, sent, votes_seen, answers, set,
                   printed, hist>>

\* solve: StateSet::new pulls one record per worker from the answer channel.
SolveRecv ==
    /\ Len(set.states) < num_workers
    /\ answers # <<>>
    /\ set' = StateSetStep(set, Head(answers).states)
    /\ answers' = Tail(answers)
    /\ UNCHANGED <<anim, output,
                   D, C, bananas, num_workers, progress, mutex, stop_votes,
                   cleanup, pc, round, next, states, successors, sent, nrecv,
                   votes_seen, chan, printed, panicked, hist, received>>

WorkerStep(w) ==
    \/ LoopTop(w)
    \/ Arrive(w)
    \/ LastLoad(w)
    \/ LastStore(w)
    \/ SpuriousWake(w)
    \/ Recheck(w)
    \/ CheckStop(w)
    \/ SendAnswer(w)
    \/ Cleanup(w)
    \/ PrintRounds(w)
    \/ Expand(w)
    \/ Send(w)
    \/ Recv(w)

Next == (\E w \in Workers : WorkerStep(w)) \/ SolveRecv

Spec == Init /\ [][Next]_vars

\* Fair scheduling of the threads: while the process lives, a worker thread
\* that can take a step of its code eventually does (a wake-up without
\* notification is no such step), and so does the thread of solve.
FairStep(w) ==
    \/ LoopTop(w)
    \/ Arrive(w)
    \/ LastLoad(w)
    \/ LastStore(w)
    \/ Recheck(w)
    \/ CheckStop(w)
    \/ SendAnswer(w)
    \/ Cleanup(w)
    \/ PrintRounds(w)
    \/ Expand(w)
    \/ Send(w)
    \/ Recv(w)

\* ENABLED <<FairStep(w)>>_vars, computed: every step changes pc or chan, so
\* a step is enabled exactly when the guard of the action at pc[w] holds.
CanStep(w) ==
    /\ w \in Workers
    /\ \/ pc[w] \in {"top", "last_load", "last_store", "check", "answer",
                      "cleanup", "print", "expand", "send"}
       \/ pc[w] \in {"sync", "woken"} /\ mutex = NoWorker
       \/ pc[w] = "recv" /\ chan[w] # <<>>

CanSolveRecv == Len(set.states) < num_workers /\ answers # <<>>

\* The worker threads are spawned and never joined: once solve has its
\* num_workers records it returns, main prints and returns, and the process
\* ends with whatever the workers had left to do undone.  Until then the
\* process is alive and its threads are scheduled.
ProcessAlive == Len(set.states) < num_workers

\* Weak fairness of the step of worker w while the process lives,
\* WF_vars(ProcessAlive /\ FairStep(w)), with ENABLED written out as
\* ProcessAlive /\ CanStep(w).
FairWorker(w) ==
    \/ []<>(~(ProcessAlive /\ CanStep(w)))
    \/ []<><<w \in Workers /\ ProcessAlive /\ FairStep(w)>>_vars

FairSolve == ([]<>(~CanSolveRecv)) \/ ([]<><<SolveRecv>>_vars)

\* The liveness check starts from the runs with the most bananas (the
\* longest runs); every D, C and worker count of Init is kept.
LiveInit == Init /\ bananas = MaxB

LiveSpec ==
    /\ LiveInit
    /\ [][Next]_vars
    /\ \A w \in 0 .. (MaxWorkers - 1) : FairWorker(w)
    /\ FairSolve


\* The runs one banana count beyond the largest of Init that is explored
\* with three workers: the longest distance and the largest capacity, one or
\* two workers.
DeepInit ==
    /\ D = MaxD
    /\ C = MaxC
    /\ bananas = MaxB + 2
    /\ num_workers \in 1 .. 2
    /\ SolveStart

DeepSpec == DeepInit /\ [][Next]_vars

-----------------------------------------------------------------------------
(* StateSet::new on its own: any records, one per worker, on the answer    *)
(* channel in any order, and the loop of StateSet::new consuming them.     *)

AggKeys == {[x |-> 1, piles |-> <<0, p>>] : p \in 0 .. 1}

AggSolutions == UNION {[1 .. n -> AggKeys] : n \in 0 .. AggMaxSols}

AggRecord(sold, sols) ==
    [inner        |-> [k \in Range(sols) |-> [prev |-> None, held |-> sold]],
     bananas_sold |-> sold,
     solutions    |-> sols]

AggRecords ==
    {AggRecord(sold, sols) : sold \in 0 .. AggMaxSold, sols \in AggSolutions}

AggInit ==
    /\ D = 2
    /\ C \in {AggMaxSold + 1}
    /\ bananas \in {AggMaxSold + 1}
    /\ num_workers \in 1 .. MaxWorkers
    /\ progress = 0
    /\ mutex = NoWorker
    /\ stop_votes = num_workers
    /\ cleanup = num_workers
    /\ pc = [w \in Workers |-> "done"]
    /\ round = [w \in Workers |-> 0]
    /\ states \in [Workers -> AggRecords]
    /\ next = [w \in Workers |-> <<>>]
    /\ successors = [w \in Workers |-> <<>>]
    /\ sent = [w \in Workers |-> 0]
    /\ nrecv = [w \in Workers |-> 0]
    /\ votes_seen = [w \in Workers |-> 0]
    /\ chan = [w \in Workers |-> <<>>]
    /\ answers = [i \in 1 .. num_workers |->
                    [from |-> i - 1, states |-> states[i - 1]]]
    /\ set = EmptyStateSet
    /\ printed = <<>>
    /\ panicked = {}
    /\ hist = [w \in Workers |-> <<>>]
    /\ received = [w \in Workers |-> {}]
    /\ anim = NoAnimation
    /\ output = <<>>

AggNext == SolveRecv

AggSpec == AggInit /\ [][AggNext]_vars

-----------------------------------------------------------------------------
(* src/src/asciicast.rs: Animation::push_frame, write_escaped and          *)
(* Animation::encode_to_asciicast_v2.  Text is a sequence of characters;   *)
(* a printable character is the string holding it, the others are named.   *)

Esc == "ESC"
Cr == "CR"
Lf == "LF"
Tab == "TAB"
Quote == "QUOTE"
Backslash == "BACKSLASH"

DigitChars == <<"0", "1", "2", "3", "4", "5", "6", "7", "8", "9">>
HexChars == DigitChars \o <<"a", "b", "c", "d", "e", "f">>

\* Display of an unsigned integer ("{}").
RECURSIVE Decimal(_)
Decimal(n) ==
    IF n < 10 THEN <<DigitChars[n + 1]>>
    ELSE Decimal(n \div 10) \o <<DigitChars[(n % 10) + 1]>>

\* LowerHex of an unsigned integer ("{:0x}": no width, so no padding).
RECURSIVE LowerHex(_)
LowerHex(n) ==
    IF n < 16 THEN <<HexChars[n + 1]>>
    ELSE LowerHex(n \div 16) \o <<HexChars[(n % 16) + 1]>>

\* `c as u32` of the named characters; the printable ones are above 0x1f.
CharCode(c) ==
    CASE c = Esc -> 27
      [] c = Cr -> 13
      [] c = Lf -> 10
      [] c = Tab -> 9
      [] OTHER -> 32

\* write_escaped, one character: the arms of the match, in order.
EscapedChar(c) ==
    IF c = Quote THEN <<Backslash, Quote>>
    ELSE IF c = Backslash THEN <<Backslash, Backslash>>
    ELSE IF c = Lf THEN <<Backslash, "n">>
    ELSE IF c = Cr THEN <<Backslash, "r">>
    ELSE IF c = Tab THEN <<Backslash, "t">>
    ELSE IF CharCode(c) <= 31
      THEN <<Backslash, "u", "0", "0">> \o LowerHex(CharCode(c))
    ELSE <<c>>

write_escaped(str) == Concat([i \in 1 .. Len(str) |-> EscapedChar(str[i])])

\* "\x1b[38;2;{};{};{}m" (layer "3") and "\x1b[48;2;{};{};{}m" (layer "4").
ColourEscape(layer, rgb) ==
    <<Esc, "[", layer, "8", ";", "2", ";">> \o Decimal(rgb[1]) \o <<";">>
      \o Decimal(rgb[2]) \o <<";">> \o Decimal(rgb[3]) \o <<"m">>

ResetColours == <<Esc, "[", "0", "m">>
CursorHome == <<Esc, "[", "H">>

\* The x loop of one row from column x on; fg and bg are the Option values
\* the loop carries (<<>> is None, <<rgb>> is Some(rgb)).
RECURSIVE RowFrom(_, _, _, _, _, _)
RowFrom(a, f, y, x, fg, bg) ==
    IF x >= a.cols THEN <<>>
    ELSE LET idx   == f * a.cols * a.rows + y * a.cols + x
             texel == a.data[idx + 1]
         IN  (IF fg # <<texel.fg>> THEN ColourEscape("3", texel.fg) ELSE <<>>)
          \o (IF bg # <<texel.bg>> THEN ColourEscape("4", texel.bg) ELSE <<>>)
          \o <<texel.ch>>
          \o RowFrom(a, f, y, x + 1, <<texel.fg>>, <<texel.bg>>)

\* The body of the y loop: the row, the reset, and CR LF except after the
\* last row; fg and bg are None again at the start of every row.
RowText(a, f, y) ==
    RowFrom(a, f, y, 0, <<>>, <<>>) \o ResetColours
      \o (IF y < a.rows - 1 THEN <<Cr, Lf>> ELSE <<>>)

\* The string `frame` built for frame f.
FrameText(a, f) ==
    ResetColours \o CursorHome
      \o Concat([i \in 1 .. a.rows |-> RowText(a, f, i - 1)])

\* Display of `f as f32 / fps` for fps 1, 2 or 4, where the quotient is
\* exact: the integer part, then the fraction without trailing zeros.
FormatTime(f, fps) ==
    LET hundredths == ((f % fps) * 100) \div fps
    IN  Decimal(f \div fps)
          \o (IF hundredths = 0 THEN <<>>
              ELSE IF hundredths % 10 = 0
                THEN <<".", DigitChars[(hundredths \div 10) + 1]>>
              ELSE <<".">> \o Decimal(hundredths))

\* write!(w, "[{}, \"o\", \"", time); write_escaped(w, &frame);
\* writeln!(w, "\"]")
EventLine(a, f) ==
    <<"[">> \o FormatTime(f, a.fps) \o <<",", " ", Quote, "o", Quote, ",", " ",
                                         Quote>>
      \o write_escaped(FrameText(a, f)) \o <<Quote, "]", Lf>>

\* writeln!(w, "{{\"version\": 2, \"width\": {}, \"height\": {}}}", cols, rows)
HeaderLine(a) ==
    <<"{", Quote, "v", "e", "r", "s", "i", "o", "n", Quote, ":", " ", "2",
      ",", " ", Quote, "w", "i", "d", "t", "h", Quote, ":", " ">>
      \o Decimal(a.cols)
      \o <<",", " ", Quote, "h", "e", "i", "g", "h", "t", Quote, ":", " ">>
      \o Decimal(a.rows) \o <<"}", Lf>>

\* encode_to_asciicast_v2: the header, then one event per frame.
encode_to_asciicast_v2(a) ==
    HeaderLine(a) \o Concat([i \in 1 .. a.frames |-> EventLine(a, i - 1)])

\* The colours and texels of tests::test_render, a texel with another
\* background and one whose character needs escaping.
Red == <<255, 0, 0>>
Blue == <<0, 0, 255>>
Black == <<0, 0, 0>>

CastTexels ==
    {[ch |-> "A", fg |-> Red, bg |-> Black],
     [ch |-> "B", fg |-> Blue, bg |-> Black],
     [ch |-> "A", fg |-> Red, bg |-> Blue],
     [ch |-> Quote, fg |-> Blue, bg |-> Black]}

\* An Animation as tests::test_render and ascii::render construct it: no
\* data, no frames; fps 1.0 (the test) or 4.0 (render).
CastInit ==
    /\ D = 1
    /\ C = 0
    /\ bananas = 0
    /\ num_workers = 1
    /\ progress = 0
    /\ mutex = NoWorker
    /\ stop_votes = 0
    /\ cleanup = 0
    /\ pc = [w \in Workers |-> "done"]
    /\ round = [w \in Workers |-> 0]
    /\ states = [w \in Workers |-> DefaultStates]
    /\ next = [w \in Workers |-> <<>>]
    /\ successors = [w \in Workers |-> <<>>]
    /\ sent = [w \in Workers |-> 0]
    /\ nrecv = [w \in Workers |-> 0]
    /\ votes_seen = [w \in Workers |-> 0]
    /\ chan = [w \in Workers |-> <<>>]
    /\ answers = <<>>
    /\ set = EmptyStateSet
    /\ printed = <<>>
    /\ panicked = {}
    /\ hist = [w \in Workers |-> <<>>]
    /\ received = [w \in Workers |-> {}]
    /\ anim \in {[data |-> <<>>, cols |-> c, rows |-> r, frames |-> 0,
                  fps |-> p] : c \in 1 .. MaxCols, r \in 1 .. MaxRows,
                               p \in {1, 4}}
    /\ output = <<>>

\* push_frame(frame), for a frame of cols * rows texels (the assert_eq!).
push_frame(frame) ==
    /\ output = <<>>
    /\ anim.frames < MaxFrames
    /\ Len(frame) = anim.cols * anim.rows
    /\ anim' = [anim EXCEPT !.data = @ \o frame, !.frames = @ + 1]
    /\ UNCHANGED <<output, D, C, bananas, num_workers, progress, mutex,
                   stop_votes, cleanup, pc, round, next, states, successors,
                   sent, nrecv, votes_seen, chan, answers, set, printed,
                   panicked, hist, received>>

\* encode_to_asciicast_v2(&mut output)
Encode ==
    /\ output = <<>>
    /\ Len(anim.data) = anim.cols * anim.rows * anim.frames
    /\ output' = encode_to_asciicast_v2(anim)
    /\ UNCHANGED <<anim, D, C, bananas, num_workers, progress, mutex,
                   stop_votes, cleanup, pc, round, next, states, successors,
                   sent, nrecv, votes_seen, chan, answers, set, printed,
                   panicked, hist, received>>

CastNext ==
    \/ \E frame \in [1 .. (anim.cols * anim.rows) -> CastTexels] :
          push_frame(frame)
    \/ Encode

CastSpec == CastInit /\ [][CastNext]_vars

-----------------------------------------------------------------------------
(* Vocabulary of the properties *)

Terminated(w) == pc[w] \in {"answer", "cleanup", "print", "done"}
Working(w) == pc[w] \in {"expand", "send", "recv"}
AllDone == \A w \in Workers : pc[w] = "done"
SolveDone == Len(set.states) = num_workers

\* The transition model as the problem states it: with something in hand,
\* step to a neighbouring position inside [0, D) eating one banana, take as
\* much of the pile there as the capacity allows, then leave any amount.
LegalSucc(cap, s) ==
    IF s.held = 0 THEN {}
    ELSE UNION {
        LET total == (s.held - 1) + s.piles[nx + 1]
            got   == Min(cap, total)
        IN  {[x |-> nx, held |-> got - drop,
              piles |-> [s.piles EXCEPT ![nx + 1] = (total - got) + drop]]
               : drop \in 0 .. got}
        : nx \in {s.x - 1, s.x + 1} \cap (0 .. (Len(s.piles) - 1))}

\* Every State reachable from the states of `frontier`, none discarded.
RECURSIVE LegalClosure(_, _, _)
LegalClosure(cap, frontier, seen) ==
    IF frontier = {} THEN seen
    ELSE LET new == (UNION {LegalSucc(cap, s) : s \in frontier}) \ seen
         IN  LegalClosure(cap, new, seen \cup new)

LegalReach(d, cap, b) ==
    LegalClosure(cap, {InitialState(d, cap, b)}, {InitialState(d, cap, b)})

LegalBest(d, cap, b) ==
    SetMax({s.held : s \in {t \in LegalReach(d, cap, b) : t.x = d - 1}})

\* Some shard holds a key with more in hand than a reachable State of that
\* key: a re-discovery the tables discarded (or would discard).
SomeKeyRediscovered ==
    \E s \in LegalReach(D, C, bananas) : \E w \in Workers :
        /\ KeyOf(s) \in DOMAIN states[w].inner
        /\ states[w].inner[KeyOf(s)].held > s.held

\* C1: when solve has aggregated the records of all the workers, the reported
\* bananas_sold is the largest held of any State at position D-1 reachable by
\* legal transitions with no State discarded (0 when there is none).
C1_OptimumKept == SolveDone => set.bananas_sold = LegalBest(D, C, bananas)

C1_Witness ==
    /\ SolveDone
    /\ num_workers >= 2
    /\ set.bananas_sold >= 1
    /\ SomeKeyRediscovered

\* C2: a worker is in the terminated branch in round r only if every worker's
\* frontier was empty at the top of round r and in no earlier round were all
\* frontiers empty; a worker past the check of round r found some frontier
\* nonempty at the top of round r.
C2_TerminationSound ==
    \A w \in Workers :
        /\ Terminated(w) =>
             /\ \A v \in Workers :
                    Len(hist[v]) > round[w] /\ hist[v][round[w] + 1]
             /\ \A r \in 0 .. (round[w] - 1) :
                    \E v \in Workers : ~hist[v][r + 1]
        /\ Working(w) =>
             \E v \in Workers : Len(hist[v]) > round[w] /\ ~hist[v][round[w] + 1]

\* A run that ends after a round in which one worker had an empty frontier
\* while another had work.
C2_Witness ==
    \E w \in Workers :
        /\ Terminated(w)
        /\ \E r \in 0 .. (round[w] - 1) : \E u, v \in Workers :
              hist[u][r + 1] /\ ~hist[v][r + 1]

\* C4: while a worker expands, sends or receives in round r, every worker has
\* completed the receive phase of round r-1 (its round counter is >= r).
C4_BarrierOrdering ==
    \A w \in Workers : Working(w) => \A v \in Workers : round[v] >= round[w]

C4_Witness ==
    \E w \in Workers :
        /\ pc[w] = "expand"
        /\ round[w] >= 1
        /\ next[w] # <<>>
        /\ num_workers >= 2

\* C5: the workers in the terminated branch all have the same round counter,
\* no worker is expanding, sending or receiving in that round or a later one,
\* and each worker past the send on the answer channel has sent one record.
C5_ConsistentTermination ==
    /\ \A w, v \in Workers :
          Terminated(w) =>
             /\ Terminated(v) => round[v] = round[w]
             /\ Working(v) => round[v] < round[w]
    /\ Len(answers) + Len(set.states)
         = Cardinality({w \in Workers :
                            pc[w] \in {"cleanup", "print", "done"}})

C5_Witness ==
    /\ num_workers >= 2
    /\ \A w \in Workers : Terminated(w) /\ round[w] >= 2
    /\ \E w, v \in Workers : pc[w] = "done" /\ pc[v] = "answer"

\* C6: the assert! of States::insert has never failed, and every pair waiting
\* in a worker's channel whose key is already in that worker's table carries
\* no more in hand than the table holds for the key.
C6_MonotonicFirstDiscovery ==
    /\ \A f \in panicked : f.cause # "assert"
    /\ \A w \in Workers : \A m \in Range(chan[w]) : \A p \in Range(m.pairs) :
          KeyOf(p.state) \in DOMAIN states[w].inner
             => states[w].inner[KeyOf(p.state)].held >= p.state.held

\* A worker about to receive a pair for a key it stored with more in hand.
C6_Witness ==
    \E w \in Workers :
        /\ pc[w] = "recv"
        /\ chan[w] # <<>>
        /\ \E p \in Range(Head(chan[w]).pairs) :
              /\ KeyOf(p.state) \in DOMAIN states[w].inner
              /\ states[w].inner[KeyOf(p.state)].held > p.state.held

\* The run of a single worker, which has one interleaving: rounds of expand
\* and insert until the frontier is empty; its bananas_sold.
RECURSIVE SingleWorkerRun(_, _, _)
SingleWorkerRun(cap, st, nxt) ==
    IF nxt = <<>> THEN st.bananas_sold
    ELSE LET r == InsertBatch(st, <<>>, Batch(Routed(cap, nxt, 1), 0))
         IN  SingleWorkerRun(cap, r.states, r.next)

SingleWorkerBest(d, cap, b) ==
    SingleWorkerRun(cap, InitialStates(0, d, cap, b),
                    FrontierOf(InitialStates(0, d, cap, b)))

\* C7: whatever the number of workers and the interleaving, the aggregated
\* bananas_sold is the value the one-worker run reports for (D, C, bananas).
C7_SameForAllWorkerCounts ==
    SolveDone => set.bananas_sold = SingleWorkerBest(D, C, bananas)

\* A run of three workers in which at least two shards are populated.
C7_Witness ==
    /\ SolveDone
    /\ num_workers = 3
    /\ set.bananas_sold >= 1
    /\ \E i, j \in 1 .. 3 : i # j /\ set.states[i] # <<>> /\ set.states[j] # <<>>

\* C8: no key is stored in the tables of two workers.
C8_ShardsDisjoint ==
    \A w, v \in Workers :
        w # v => DOMAIN states[w].inner \cap DOMAIN states[v].inner = {}

\* C9: the batches a worker has drained in its receive phase come from
\* distinct workers and were all sent in the round of that phase; when the
\* phase is over there is one from every worker; every batch still queued
\* was sent in the receiver's current round, by a worker whose batch of that
\* round is not yet drained, and no worker has two batches queued.
C9_PhaseRound(w) ==
    IF pc[w] \in {"send", "recv"} THEN round[w] ELSE round[w] - 1

C9_RoundIsolation ==
    \A w \in Workers :
        /\ \A b \in received[w] : b.round = C9_PhaseRound(w)
        /\ Cardinality({b.from : b \in received[w]}) = Cardinality(received[w])
        /\ pc[w] = "recv" => Cardinality(received[w]) = nrecv[w]
        /\ (round[w] >= 1 /\ pc[w] \notin {"send", "recv", "panicked"})
              => {b.from : b \in received[w]} = Workers
        /\ \A k \in DOMAIN chan[w] :
              /\ chan[w][k].round = round[w]
              /\ [from |-> chan[w][k].from, round |-> chan[w][k].round]
                    \notin received[w]
              /\ \A j \in DOMAIN chan[w] :
                    j # k => chan[w][j].from # chan[w][k].from

\* A worker in the receive phase of a later round that has drained a batch
\* of another worker while a third batch is still queued.
C9_Witness ==
    \E w \in Workers :
        /\ pc[w] = "recv"
        /\ round[w] >= 1
        /\ chan[w] # <<>>
        /\ \E b \in received[w] : b.from # w /\ b.round = round[w]

\* Every worker has left its loop and solve has taken one record per worker
\* from the answer channel, which is then empty.
C3_Finished == AllDone /\ SolveDone /\ answers = <<>>

\* Under fair scheduling every run reaches unanimous termination.
C3_EventuallyTerminates == <>C3_Finished

\* No thread is due a step: solve has nothing to receive, and no worker is
\* both able to step and sure to be scheduled.  A run may stay here for ever.
C3_AtRest ==
    /\ ~CanSolveRecv
    /\ \A w \in Workers : ~(ProcessAlive /\ CanStep(w))

\* C3: under fair scheduling, and with no assertion or channel failure,
\* every run reaches unanimous termination: no worker stays blocked in
\* synchronize or in recv, every worker breaks out of its loop, and solve
\* receives exactly W records.  So a run comes to rest only there.
C3_RestsOnlyFinished == (C3_AtRest /\ panicked = {}) => C3_Finished

\* What fair scheduling during the life of the process does give: no worker
\* stays blocked in synchronize or in recv, every worker sends its record,
\* and solve receives exactly W of them; the steps of a worker after its
\* send (the cleanup counter, the println, the break) may never be taken.
C3_AnswersDelivered ==
    <>(/\ \A w \in Workers : pc[w] \in {"cleanup", "print", "done"}
       /\ SolveDone
       /\ answers = <<>>)

C3_Witness ==
    /\ C3_Finished
    /\ num_workers >= 2
    /\ \A w \in Workers : round[w] >= 2

\* C10: once StateSet::new has consumed the records of all the workers, its
\* bananas_sold is the maximum of the records' bananas_sold and its solutions
\* are, as a set, the union of the solutions of the records attaining that
\* maximum; both are functions of the multiset of records, not of the order
\* of arrival.
C10_MaxSold == SetMax({states[w].bananas_sold : w \in Workers})

C10_OrderIndependent ==
    SolveDone =>
        /\ set.bananas_sold = C10_MaxSold
        /\ Range(set.solutions) =
             UNION {Range(states[w].solutions) :
                      w \in {v \in Workers : states[v].bananas_sold = C10_MaxSold}}

\* Three records: the first to arrive sells less than the other two, which
\* tie with different winning keys.
C10_Witness ==
    /\ SolveDone
    /\ num_workers = 3
    /\ states[0].bananas_sold < states[1].bananas_sold
    /\ states[1].bananas_sold = states[2].bananas_sold
    /\ states[0].solutions # <<>>
    /\ states[1].solutions # <<>>
    /\ states[2].solutions # <<>>
    /\ states[1].solutions # states[2].solutions

\* Walking back from `key` through get and StateMeta.prev: every lookup finds
\* an entry, every step is one legal transition from the State the lookup of
\* the predecessor's key yields, and the walk ends at the initial State.
RECURSIVE C11_WalkOK(_, _, _)
C11_WalkOK(ss, key, fuel) ==
    LET m == get(ss, key)
    IN  /\ "prev" \in DOMAIN m
        /\ IF "none" \in DOMAIN m.prev
             THEN [x |-> key.x, piles |-> key.piles, held |-> m.held]
                     = InitialState(D, C, bananas)
             ELSE /\ fuel > 0
                  /\ [x |-> key.x, piles |-> key.piles, held |-> m.held]
                        \in LegalSucc(C, m.prev)
                  /\ "held" \in DOMAIN get(ss, KeyOf(m.prev))
                  /\ get(ss, KeyOf(m.prev)).held = m.prev.held
                  /\ C11_WalkOK(ss, KeyOf(m.prev), fuel - 1)

\* C11: after termination, get(key) returns the stored StateMeta of every
\* key stored in any shard, and from every winning key the walk through the
\* predecessors reaches the initial State by legal transitions.
C11_PredecessorLookup ==
    SolveDone =>
        /\ \A i \in DOMAIN set.states : \A key \in DOMAIN set.states[i] :
              get(set, key) = set.states[i][key]
        /\ \A key \in Range(set.solutions) : C11_WalkOK(set, key, bananas + 1)

\* C12: the count of visited states that main reports is the sum of the
\* sizes of the shards of all the workers.
C12_VisitedIsSumOfShards ==
    SolveDone =>
        Visited(set) =
            Len(Concat([i \in 1 .. num_workers |->
                          [k \in 1 .. Cardinality(DOMAIN states[i - 1].inner)
                             |-> 1]]))

\* C13: when the capacity is at least the distance (C >= D), the finished
\* run reports bananas_sold = bananas - D (stated for bananas >= D, where the
\* difference is a count of bananas).
C13_CapacityAtLeastDistance ==
    (SolveDone /\ C >= D /\ bananas >= D) => set.bananas_sold = bananas - D

\* C14: with capacity 0 the finished run reports bananas_sold = 0 and, for
\* every D >= 1, an empty list of winning keys.
C14_ZeroCapacity ==
    (SolveDone /\ C = 0) =>
        /\ set.bananas_sold = 0
        /\ D >= 1 => set.solutions = <<>>

\* The bounds of one State.
C15_StateOK(s) ==
    /\ s.x \in 0 .. (D - 1)
    /\ s.held \in 0 .. C
    /\ Len(s.piles) = D
    /\ \A i \in 1 .. D : s.piles[i] >= 0

\* The unsigned subtractions made while expanding s: held - 1 in moves,
\* C - held and piles[x] - pickup in pickup, held - amount in the drop loop.
C15_NoUnderflow(s) ==
    \A i \in DOMAIN moves(s) :
        LET m == moves(s)[i]
            p == pickup(C, m)
        IN  /\ s.held - 1 >= 0
            /\ C - m.held >= 0
            /\ p.piles[p.x + 1] >= 0
            /\ \A k \in DOMAIN drops(p) : drops(p)[k].held >= 0

\* Every State a worker holds: its frontier, its table (key and stored held,
\* and the stored predecessor), the batches it is sending and the batches
\* queued for it.
C15_StatesOf(w) ==
    Range(next[w])
      \cup {[x |-> k.x, piles |-> k.piles, held |-> states[w].inner[k].held]
              : k \in DOMAIN states[w].inner}
      \cup {states[w].inner[k].prev
              : k \in {j \in DOMAIN states[w].inner :
                         "none" \notin DOMAIN states[w].inner[j].prev}}
      \cup UNION {{p.prev, p.state} : p \in
             UNION {Range(successors[w][i]) : i \in DOMAIN successors[w]}}
      \cup UNION {{p.prev, p.state} : p \in
             UNION {Range(chan[w][i].pairs) : i \in DOMAIN chan[w]}}

\* C15: every State in a frontier, a table or a batch has 0 <= held <= C,
\* x in [0, D) and no negative pile, and expanding it makes no unsigned
\* subtraction underflow.
C15_StateBounds ==
    \A w \in Workers : \A s \in C15_StatesOf(w) :
        C15_StateOK(s) /\ C15_NoUnderflow(s)

\* A State found after the first round by stepping back onto a pile and
\* picking bananas up from it, stored with something in hand.
C15_Witness ==
    \E w \in Workers : \E k \in DOMAIN states[w].inner :
        LET m == states[w].inner[k]
        IN  /\ "none" \notin DOMAIN m.prev
            /\ m.held >= 1
            /\ round[w] >= 2
            /\ m.prev.piles[k.x + 1] > k.piles[k.x + 1]

\* The lines of `out`: the text before each line feed written as such.
C16_LfAt(out) == {i \in DOMAIN out : out[i] = Lf}

C16_Line(out, k) ==
    LET lfs   == C16_LfAt(out)
        endAt == CHOOSE p \in lfs : Cardinality({q \in lfs : q < p}) = k - 1
        from  == IF k = 1 THEN 1
                 ELSE 1 + (CHOOSE p \in lfs :
                             Cardinality({q \in lfs : q < p}) = k - 2)
    IN  SubSeq(out, from, endAt - 1)

\* Row y of frame f as the claim describes it: each texel preceded by the
\* escape of a colour that differs from the previous texel of the row (the
\* first texel of a row by both), then the reset and CR LF.
C16_Texel(a, f, y, x) == a.data[f * a.cols * a.rows + y * a.cols + x + 1]

C16_Row(a, f, y) ==
    Concat([i \in 1 .. a.cols |->
        LET t == C16_Texel(a, f, y, i - 1)
        IN  (IF i = 1 \/ C16_Texel(a, f, y, i - 2).fg # t.fg
               THEN ColourEscape("3", t.fg) ELSE <<>>)
         \o (IF i = 1 \/ C16_Texel(a, f, y, i - 2).bg # t.bg
               THEN ColourEscape("4", t.bg) ELSE <<>>)
         \o <<t.ch>>])
      \o ResetColours \o <<Cr, Lf>>

C16_Frame(a, f) ==
    ResetColours \o CursorHome
      \o Concat([i \in 1 .. a.rows |-> C16_Row(a, f, i - 1)])

\* C16: for an animation of F pushed frames the encoder writes F + 1 lines,
\* a header and then the frames in push order; the line of frame f carries
\* the timestamp f / fps and the frame text in which every row, the last
\* included, is its texels, a colour reset and CR LF.
C16_EncodedLayout ==
    output # <<>> =>
        /\ output[Len(output)] = Lf
        /\ Cardinality(C16_LfAt(output)) = anim.frames + 1
        /\ \A f \in 0 .. (anim.frames - 1) :
              C16_Line(output, f + 2) =
                  <<"[">> \o FormatTime(f, anim.fps)
                    \o <<",", " ", Quote, "o", Quote, ",", " ", Quote>>
                    \o write_escaped(C16_Frame(anim, f)) \o <<Quote, "]">>

\* The number of workers whose frontier was empty at the top of round r.
C17_VotesOfRound(r) ==
    Cardinality({v \in Workers : r >= 0 /\ Len(hist[v]) > r /\ hist[v][r + 1]})

\* The latest round in which some worker has passed the top of its loop.
C17_LatestRound == SetMax({Len(hist[v]) : v \in Workers}) - 1

\* The last arriver of that round has finished its work on the counter.
C17_LatestReleased ==
    /\ progress >= Target(C17_LatestRound, num_workers)
    /\ \A w \in Workers : pc[w] \notin {"last_load", "last_store"}

\* C17: while the last arriver of round r inspects stop_votes, every worker
\* has passed the top of round r and none the top of round r+1, and the
\* counter (and the value loaded from it) is the number of workers whose
\* frontier was empty at the top of round r; at any time the counter is
\* between 0 and W and holds the votes of the latest round, or, once that
\* round's last arriver is through, W if they were unanimous and 0 if not.
C17_VoteCounterIntegrity ==
    /\ stop_votes \in 0 .. num_workers
    /\ \A w \in Workers :
          pc[w] \in {"last_load", "last_store"} =>
             /\ \A v \in Workers : Len(hist[v]) = round[w] + 1
             /\ stop_votes = C17_VotesOfRound(round[w])
             /\ pc[w] = "last_store" => votes_seen[w] = stop_votes
    /\ stop_votes =
          IF C17_LatestReleased
            THEN (IF C17_VotesOfRound(C17_LatestRound) = num_workers
                    THEN num_workers ELSE 0)
            ELSE C17_VotesOfRound(C17_LatestRound)

\* The last arriver of a later round about to reset a counter that holds
\* some, but not all, votes.
C17_Witness ==
    \E w \in Workers :
        /\ pc[w] = "last_store"
        /\ round[w] >= 1
        /\ votes_seen[w] > 0
        /\ votes_seen[w] < num_workers

\* The workers chosen to print (past the fetch_add that reached W, not yet
\* past the println).
C18_Printers == {w \in Workers : pc[w] = "print"}

\* The safe half of C18: nobody is chosen to print while the cleanup counter
\* is below W, and exactly one worker is chosen when it reaches W; when it is
\* chosen every worker has sent its record on the answer channel and
\* incremented the counter; the line is printed at most once, by that
\* worker, with its round; and when every worker has left its loop it has
\* been printed.
C18_CleanupHandshake ==
    /\ cleanup \in 0 .. num_workers
    /\ cleanup < num_workers => (printed = <<>> /\ C18_Printers = {})
    /\ cleanup = num_workers =>
          Cardinality(C18_Printers) + Len(printed) = 1
    /\ AllDone => Len(printed) = 1
    /\ (printed # <<>> \/ C18_Printers # {}) =>
          /\ \A w \in Workers : pc[w] \in {"print", "done"}
          /\ Len(answers) + Len(set.states) = num_workers
    /\ printed # <<>> => printed[1].round = round[printed[1].by]

\* C18: after termination exactly one of the W workers prints the round
\* count, the one whose fetch_add brings the cleanup counter to W, when all
\* W workers have sent their records.  So the handshake is never broken and
\* a run that comes to rest has the line printed, once.
C18_ExactlyOnePrints ==
    /\ C18_CleanupHandshake
    /\ (C3_AtRest /\ panicked = {}) => Len(printed) = 1

\* Three workers have finished after some rounds of work and the first of
\* them, not the last, did the printing.
C18_Witness ==
    /\ AllDone
    /\ num_workers = 3
    /\ printed # <<>>
    /\ printed[1].by = 0
    /\ printed[1].round >= 2

\* The keys of a table at the final position, and the largest held stored
\* for them.
C19_Finals(st) == {k \in DOMAIN st.inner : k.x = D - 1}

C19_Best(st) == SetMax({st.inner[k].held : k \in C19_Finals(st)})

\* C19: in every worker's record bananas_sold is the largest held stored for
\* a key at position D-1 of its shard and solutions lists the keys stored
\* with that held, each of them once.
C19_RecordMatchesShard ==
    \A w \in Workers :
        /\ states[w].bananas_sold = C19_Best(states[w])
        /\ Range(states[w].solutions) =
              {k \in C19_Finals(states[w]) :
                 states[w].inner[k].held = C19_Best(states[w])}
        /\ Len(states[w].solutions) = Cardinality(Range(states[w].solutions))

\* The phase of the worker loop a position of Worker::run belongs to: the
\* stop vote and synchronize up to the termination test, the computation of
\* the successors, the send loop, the receive loop, the terminated branch.
C20_Phase(p) ==
    CASE p \in {"top", "sync", "wait", "woken", "last_load", "last_store",
                "check"} -> "AwaitingBarrier"
      [] p = "expand" -> "Expanding"
      [] p = "send" -> "Routing"
      [] p = "recv" -> "Receiving"
      [] p \in {"answer", "cleanup", "print", "done"} -> "Terminated"
      [] OTHER -> "Panicked"

\* C20: the barrier call sits between Routing and Receiving, so a worker
\* that has drained a batch in the receive phase of round r finds every
\* worker done with Routing for round r (receiving in round r, or beyond).
C20_RoutingBeforeReceiving ==
    \A w, v \in Workers :
        (pc[w] = "recv" /\ nrecv[w] >= 1) =>
            \/ round[v] > round[w]
            \/ round[v] = round[w] /\ pc[v] = "recv"

\* C20 as amended: in each round a worker goes through the barrier call
\* synchronize(round), then Expanding, Routing and Receiving, in that order
\* (or from the barrier into the terminated branch), its round counter
\* advancing when Receiving ends; a worker enters Expanding for round r only
\* when every worker has finished Receiving for round r-1.
C20_PhaseOrder ==
    [][\A w \in Workers :
          LET a == C20_Phase(pc[w])
              b == C20_Phase(pc'[w])
          IN  a # b =>
                /\ <<a, b>> \in {<<"AwaitingBarrier", "Expanding">>,
                                 <<"Expanding", "Routing">>,
                                 <<"Routing", "Receiving">>,
                                 <<"Receiving", "AwaitingBarrier">>,
                                 <<"AwaitingBarrier", "Terminated">>}
                /\ round'[w] = IF a = "Receiving" THEN round[w] + 1
                               ELSE round[w]
                /\ b = "Expanding" =>
                      \A v \in Workers : round[v] >= round[w]]_vars

\* A worker that has drained a batch of a later round while another worker
\* is still sending its batches of that round.
C20_Witness ==
    \E w, v \in Workers :
        /\ pc[w] = "recv"
        /\ nrecv[w] >= 1
        /\ round[w] >= 1
        /\ pc[v] = "send"
        /\ round[v] = round[w]

\* Bananas in existence in a State: in hand plus on the ground.
C21_Total(s) ==
    LET sum[i \in 0 .. Len(s.piles)] ==
            IF i = 0 THEN 0 ELSE sum[i - 1] + s.piles[i]
    IN  s.held + sum[Len(s.piles)]

\* The pairs of one batch, produced in round r: each successor has one
\* banana less than its predecessor and B - (r + 1) in all.
C21_BatchOK(pairs, r) ==
    \A i \in DOMAIN pairs :
        /\ C21_Total(pairs[i].state) = C21_Total(pairs[i].prev) - 1
        /\ C21_Total(pairs[i].state) = bananas - (r + 1)

\* The State stored in a table under key k.
C21_Stored(st, k) == [x |-> k.x, piles |-> k.piles, held |-> st.inner[k].held]

\* The round whose receive phase worker w is in or has last completed
\* (-1 before its first one).
C21_LastInsertRound(w) == IF pc[w] = "recv" THEN round[w] ELSE round[w] - 1

\* What holds of worker w in every configuration.
C21_WorkerOK(w) ==
    \* the batches computed in the current round, while they are being sent
    \* or after
    /\ pc[w] \in {"send", "recv"} =>
          \A i \in DOMAIN successors[w] :
              /\ C21_BatchOK(successors[w][i], round[w])
              /\ round[w] >= bananas => successors[w][i] = <<>>
    \* the batches queued for w
    /\ \A i \in DOMAIN chan[w] :
          /\ C21_BatchOK(chan[w][i].pairs, chan[w][i].round)
          /\ chan[w][i].round >= bananas => chan[w][i].pairs = <<>>
    \* the frontier: the states inserted in the latest receive phase, or the
    \* initial state
    /\ \A i \in DOMAIN next[w] :
          C21_Total(next[w][i]) = bananas - (C21_LastInsertRound(w) + 1)
    \* the table: the initial state has B, every other entry one less than
    \* its predecessor, and none less than the latest insertions
    /\ \A k \in DOMAIN states[w].inner :
          LET s == C21_Stored(states[w], k)
              m == states[w].inner[k]
          IN  /\ IF "none" \in DOMAIN m.prev
                    THEN C21_Total(s) = bananas
                    ELSE C21_Total(s) = C21_Total(m.prev) - 1
              /\ C21_Total(s) >= bananas - (C21_LastInsertRound(w) + 1)
              /\ C21_Total(s) >= 0
    \* the loop is left in round B + 1 at the latest
    /\ round[w] <= bananas + 1
    /\ Working(w) => round[w] <= bananas

\* What holds of every step: a key that enters the table of w in the receive
\* phase of round r is stored with held = B - (r + 1) - sum(piles).
C21_InsertStep ==
    \A w \in Workers :
        \A k \in DOMAIN states'[w].inner \ DOMAIN states[w].inner :
            /\ pc[w] = "recv"
            /\ C21_Total([x |-> k.x, piles |-> k.piles,
                          held |-> states'[w].inner[k].held])
                 = bananas - (round[w] + 1)

\* C21: fuel conservation.  Every successor has held + sum(piles) one less
\* than its predecessor; every State routed or inserted in round r has
\* held + sum(piles) = B - (r + 1) and the initial State has B, so the held
\* stored for a key is fixed by the round that discovers it; no State is
\* generated in round B or later; the loop is left with round <= B + 1, which
\* is the number "finished after {} rounds" prints.
C21_FuelConservation ==
    /\ [](\A w \in Workers : C21_WorkerOK(w))
    /\ [](\A i \in DOMAIN printed : printed[i].round <= bananas + 1)
    /\ [][C21_InsertStep]_vars

\* A run of B >= 2 bananas that ended in round B + 1, with a State found
\* in the last productive round B - 1 (nothing left in hand or on the
\* ground) after a pickup from a pile in an earlier round.
C21_Witness ==
    /\ bananas >= 2
    /\ \E i \in DOMAIN printed : printed[i].round = bananas + 1
    /\ \E w \in Workers : \E k \in DOMAIN states[w].inner :
          C21_Total(C21_Stored(states[w], k)) = 0
    /\ \E w \in Workers : \E k \in DOMAIN states[w].inner :
          LET m == states[w].inner[k]
          IN  /\ "none" \notin DOMAIN m.prev
              /\ m.prev.piles[k.x + 1] > k.piles[k.x + 1]

====
